---- MODULE Spec2Model ----
(***************************************************************************)
(* TabSplit.store: the tab-split state store of the add-on.                *)
(*                                                                         *)
(* The store is one object holding _state, _tabGroupIdCount and            *)
(* _listeners.  update(...actions) applies its actions one after the       *)
(* other, resets/clears the state at the end of a dirty batch and then     *)
(* calls every listener synchronously.  A listener runs inside update, so  *)
(* each activation of update keeps its position (loop, notification,       *)
(* return) in a frame of `stack`.  The code never looks ahead in its       *)
(* argument list, so the actions of a batch are drawn one at a time.       *)
(***************************************************************************)
EXTENDS Integers, Sequences, FiniteSets, TLC

VARIABLES
  state,            \* TabSplit.store._state
  tabGroupIdCount,  \* TabSplit.store._tabGroupIdCount
  listeners,        \* TabSplit.store._listeners: null, or a Set in insertion order
  stack,            \* the activations of update(), outermost first
  uncaught,         \* the last top-level call ended by an exception it did not catch
  outside           \* the objects the caller of the store holds on to

vars == <<state, tabGroupIdCount, listeners, stack, uncaught, outside>>

----------------------------------------------------------------------------
(* Bounds of the model *)

MaxBatch == 2       \* actions per update call
MaxGroupId == 2     \* successful add_tab_group since init
MaxDepth == 2       \* activations of update at a time (update inside a listener)

----------------------------------------------------------------------------
(* Constants of the store *)

TAB_GROUP_ID_PREFIX == "tabsplit-tab-group-id-"

VALID_LAYOUTS == { "column_split" }

\* A distribution is a fraction of the window width; the model counts it in
\* tenths, so the literal 1 of the source is DistOne tenths.
DistOne == 10

\* The value of a property that is absent or holds undefined.
Undefined == "undefined"

STATUS_ACTIVE == "status_active"
STATUS_INACTIVE == "status_inactive"
STATUS_DESTROYED == "status_destroyed"

\* An object without properties.
EmptyObject == [k \in {} |-> k]

\* The id string: prefix + count.  The decimal form of the count is kept as
\* the number itself.
TabGroupId(n) == <<TAB_GROUP_ID_PREFIX, n>>

----------------------------------------------------------------------------
(* The host (TabSplit.utils): which tabs exist, which tabs are split *)

LivePanels == { "p1", "p2", "p3", "p4" }

getTabByLinkedPanel(linkedPanel) == linkedPanel \in LivePanels

getTabGroupByLinkedPanel(linkedPanel, s) ==
  \E id \in DOMAIN s.tabGroups :
    \E i \in DOMAIN s.tabGroups[id].tabs :
      s.tabGroups[id].tabs[i].linkedPanel = linkedPanel

----------------------------------------------------------------------------
(* _resetState, _copy *)

ResetState ==
  [ status |-> STATUS_INACTIVE,
    windowWidth |-> -1,
    selectedLinkedPanel |-> "",
    tabGroupIds |-> <<>>,
    tabGroups |-> EmptyObject ]

\* JSON.parse(JSON.stringify(obj)) of a tab group: numbers, strings and
\* arrays come back equal, a property holding undefined is dropped.
_copy(obj) ==
  IF "color" \in DOMAIN obj /\ obj.color = Undefined
    THEN [k \in (DOMAIN obj) \ {"color"} |-> obj[k]]
    ELSE obj

\* A slip: the object itself is handed on.
_copyReturnsArgument(ref) == ref

\* The objects of the store that the result of _copy shares with the object
\* ref it was given: none, JSON.parse builds every object and array of its
\* result anew.
_copyShares(ref) == <<>>

----------------------------------------------------------------------------
(* The outcome of one action of update(): ok is FALSE when the action threw *)
(* (the catch of update then returns); dirty, added, removed, updated are   *)
(* what the action contributes to the locals of update.                     *)

Done(s, cnt, d, a, r, u) ==
  [ ok |-> TRUE, state |-> s, count |-> cnt, dirty |-> d,
    added |-> a, removed |-> r, updated |-> u ]

Throw(s, cnt) ==
  [ ok |-> FALSE, state |-> s, count |-> cnt, dirty |-> FALSE,
    added |-> <<>>, removed |-> <<>>, updated |-> <<>> ]

----------------------------------------------------------------------------
(* _isValidTab, _addTabGroup *)

\* A slip: the bounds of the distribution are taken as allowed values.
_isValidTabInclusive(tab) ==
  ~ ( (tab.col < 0 \/ tab.col > 1)
      \/ (tab.distribution < 0 \/ tab.distribution > DistOne)
      \/ ~ getTabByLinkedPanel(tab.linkedPanel) )

_isValidTab(tab) ==
  ~ ( (tab.col < 0 \/ tab.col > 1)
      \/ (tab.distribution <= 0 \/ tab.distribution >= DistOne)
      \/ ~ getTabByLinkedPanel(tab.linkedPanel) )

\* A slip: no check that the tab is already split.
TabPassesUnlessSplit(tabs, i, seenPanels, s) ==
  LET t == tabs[i + 1] IN
    /\ ~ (t.col # i)
    /\ _isValidTab(t)
    /\ ~ (t.linkedPanel \in seenPanels)

\* One pass of the loop over tabs, i counting from 0 as in the source.
TabPasses(tabs, i, seenPanels, s) ==
  LET t == tabs[i + 1] IN
    /\ ~ (t.col # i)
    /\ _isValidTab(t)
    /\ ~ getTabGroupByLinkedPanel(t.linkedPanel, s)
    /\ ~ (t.linkedPanel \in seenPanels)

\* seenPanels when the loop reaches index i.
SeenPanels(tabs, i) == { tabs[j].linkedPanel : j \in 1..i }

\* distributionSum when the loop has passed every tab.
RECURSIVE DistributionSum(_, _)
DistributionSum(tabs, i) ==
  IF i = 0 THEN 0 ELSE DistributionSum(tabs, i - 1) + tabs[i].distribution

\* The checks of _addTabGroup up to the end of the loop over tabs.
PassesTabChecks(s, newTabGroup) ==
  LET tabs == newTabGroup.tabs
      color == newTabGroup.color
      layout == newTabGroup.layout
  IN
    /\ layout \in VALID_LAYOUTS
    /\ ~ (color = "")
    /\ ~ (Len(tabs) # 2)
    /\ \A i \in 0..(Len(tabs) - 1) : TabPasses(tabs, i, SeenPanels(tabs, i), s)

\* A slip: the id counter is not advanced.
StoreNewGroupSameId(s, cnt, newTabGroup) ==
  LET newId == TabGroupId(cnt)
      newGroup == [k \in (DOMAIN _copy(newTabGroup)) \cup {"id"} |->
                     IF k = "id" THEN newId ELSE _copy(newTabGroup)[k]]
  IN Done([s EXCEPT !.tabGroups =
                      [id \in (DOMAIN s.tabGroups) \cup {newId} |->
                         IF id = newId THEN newGroup ELSE s.tabGroups[id]],
                    !.tabGroupIds = Append(s.tabGroupIds, newId)],
          cnt, TRUE, <<newId>>, <<>>, <<>>)

\* The end of _addTabGroup: copy the group, give it the next id, store it.
StoreNewGroup(s, cnt, newTabGroup) ==
  LET newId == TabGroupId(cnt)
      newGroup == [k \in (DOMAIN _copy(newTabGroup)) \cup {"id"} |->
                     IF k = "id" THEN newId ELSE _copy(newTabGroup)[k]]
  IN Done([s EXCEPT !.tabGroups =
                      [id \in (DOMAIN s.tabGroups) \cup {newId} |->
                         IF id = newId THEN newGroup ELSE s.tabGroups[id]],
                    !.tabGroupIds = Append(s.tabGroupIds, newId)],
          cnt + 1, TRUE, <<newId>>, <<>>, <<>>)

\* A slip: the group is stored before the distribution sum is checked.
_addTabGroupStoresFirst(s, cnt, newTabGroup) ==
  IF ~ PassesTabChecks(s, newTabGroup) THEN Throw(s, cnt)
  ELSE IF DistributionSum(newTabGroup.tabs, Len(newTabGroup.tabs)) # DistOne
    THEN [StoreNewGroup(s, cnt, newTabGroup) EXCEPT !.ok = FALSE]
    ELSE StoreNewGroup(s, cnt, newTabGroup)

_addTabGroup(s, cnt, newTabGroup) ==
  IF ~ PassesTabChecks(s, newTabGroup) THEN Throw(s, cnt)
  ELSE IF DistributionSum(newTabGroup.tabs, Len(newTabGroup.tabs)) # DistOne
    THEN Throw(s, cnt)
    ELSE StoreNewGroup(s, cnt, newTabGroup)

\* The stubs: no statement in their bodies.
_removeTabGroup(s, id) == s

_updateTabDistributions(s, id, distributions) == s

----------------------------------------------------------------------------
(* The cases of the switch of update() *)

SetActive(s, cnt) ==
  IF s.status # STATUS_ACTIVE
    THEN Done([s EXCEPT !.status = STATUS_ACTIVE], cnt, TRUE, <<>>, <<>>, <<>>)
    ELSE Throw(s, cnt)

SetInactive(s, cnt) ==
  IF s.status = STATUS_ACTIVE
    THEN Done([s EXCEPT !.status = STATUS_INACTIVE], cnt, TRUE, <<>>, <<>>, <<>>)
    ELSE Throw(s, cnt)

\* A slip: set_destroyed guarded like set_inactive.
SetDestroyedFromActiveOnly(s, cnt) ==
  IF s.status = STATUS_ACTIVE
    THEN Done([s EXCEPT !.status = STATUS_DESTROYED], cnt, TRUE, <<>>, <<>>, <<>>)
    ELSE Throw(s, cnt)

SetDestroyed(s, cnt) ==
  Done([s EXCEPT !.status = STATUS_DESTROYED], cnt, TRUE, <<>>, <<>>, <<>>)

\* A slip: dirty without comparing with the width held.
UpdateWindowWidthAlwaysDirty(s, cnt, v) ==
  IF v <= 0 THEN Throw(s, cnt)
  ELSE Done([s EXCEPT !.windowWidth = v], cnt, TRUE, <<>>, <<>>, <<>>)

UpdateWindowWidth(s, cnt, v) ==
  IF v <= 0 THEN Throw(s, cnt)
  ELSE IF v # s.windowWidth
    THEN Done([s EXCEPT !.windowWidth = v], cnt, TRUE, <<>>, <<>>, <<>>)
    ELSE Done(s, cnt, FALSE, <<>>, <<>>, <<>>)

UpdateSelectedLinkedPanel(s, cnt, v) ==
  IF ~ getTabByLinkedPanel(v) THEN Throw(s, cnt)
  ELSE Done([s EXCEPT !.selectedLinkedPanel = v], cnt, TRUE, <<>>, <<>>, <<>>)

AddTabGroup(s, cnt, v) == _addTabGroup(s, cnt, v)

RemoveTabGroup(s, cnt, v) ==
  Done(_removeTabGroup(s, v), cnt, TRUE, <<>>, <<v>>, <<>>)

UpdateTabDistributions(s, cnt, v) ==
  Done(_updateTabDistributions(s, v.id, v.distributions), cnt, TRUE,
       <<>>, <<>>, <<v.id>>)

\* A slip: the guard looks for the cleared state, not for the status.
DestroyedGuardOnCleared(s) == DOMAIN s = { "status" }

\* if (this._state.status == "status_destroyed") throw ...
DestroyedGuard(s) == s.status = STATUS_DESTROYED

\* The body of the try block for one action.
ApplyAction(s, cnt, action) ==
  IF DestroyedGuard(s) THEN Throw(s, cnt)
  ELSE CASE action.type = "set_active" -> SetActive(s, cnt)
         [] action.type = "set_inactive" -> SetInactive(s, cnt)
         [] action.type = "set_destroyed" -> SetDestroyed(s, cnt)
         [] action.type = "update_window_width" ->
              UpdateWindowWidth(s, cnt, action.value)
         [] action.type = "update_selected_linkedPanel" ->
              UpdateSelectedLinkedPanel(s, cnt, action.value)
         [] action.type = "add_tab_group" -> AddTabGroup(s, cnt, action.value)
         [] action.type = "remove_tab_group" ->
              RemoveTabGroup(s, cnt, action.value)
         [] action.type = "update_tab_distibutions" ->
              UpdateTabDistributions(s, cnt, action.value)
         [] OTHER -> Throw(s, cnt)

\* if (dirty) { reset when inactive / clear when destroyed }
EndOfBatch(s) ==
  IF s.status = STATUS_INACTIVE THEN ResetState
  ELSE IF s.status = STATUS_DESTROYED THEN [status |-> STATUS_DESTROYED]
  ELSE s

----------------------------------------------------------------------------
(* The inputs: the listeners, and the actions a caller passes to update() *)

Listeners == { "L1", "L2" }

Widths == { -1, 0, 800, 1024 }

SelectablePanels == { "p1", "unknown" }

Tab(p, c, d) == [ linkedPanel |-> p, col |-> c, distribution |-> d ]

Group(color, layout, tabs) == [ color |-> color, layout |-> layout, tabs |-> tabs ]

ValidProposals ==
  { Group("#ff0000", "column_split", <<Tab("p1", 0, 5), Tab("p2", 1, 5)>>),
    Group("#00ff00", "column_split", <<Tab("p3", 0, 3), Tab("p4", 1, 7)>>),
    \* no color property at all
    Group(Undefined, "column_split", <<Tab("p1", 0, 5), Tab("p2", 1, 5)>>) }

InvalidProposals ==
  { Group("#ff0000", "row_split", <<Tab("p1", 0, 5), Tab("p2", 1, 5)>>),
    Group("", "column_split", <<Tab("p1", 0, 5), Tab("p2", 1, 5)>>),
    Group("#ff0000", "column_split", <<Tab("p1", 0, 5)>>),
    Group("#ff0000", "column_split",
          <<Tab("p1", 0, 3), Tab("p2", 1, 3), Tab("p3", 2, 4)>>),
    Group("#ff0000", "column_split", <<Tab("p1", 1, 5), Tab("p2", 0, 5)>>),
    Group("#ff0000", "column_split", <<Tab("p1", 0, 0), Tab("p2", 1, 10)>>),
    Group("#ff0000", "column_split", <<Tab("unknown", 0, 5), Tab("p2", 1, 5)>>),
    Group("#ff0000", "column_split", <<Tab("p3", 0, 5), Tab("p3", 1, 5)>>),
    Group("#ff0000", "column_split", <<Tab("p3", 0, 5), Tab("p4", 1, 4)>>) }

Proposals == ValidProposals \cup InvalidProposals

Action(type, value) == [ type |-> type, value |-> value ]

Actions ==
  { Action(t, Undefined) : t \in { "set_active", "set_inactive", "set_destroyed",
                                   "no_such_action" } }
  \cup { Action("update_window_width", w) : w \in Widths }
  \cup { Action("update_selected_linkedPanel", p) : p \in SelectablePanels }
  \cup { Action("add_tab_group", g) : g \in Proposals }
  \cup { Action("remove_tab_group", TabGroupId(0)) }
  \cup { Action("update_tab_distibutions",
                [ id |-> TabGroupId(0), distributions |-> <<3, 7>> ]) }

NoAction == Action("", Undefined)

----------------------------------------------------------------------------
(* The activations of update() *)

\* The frame of an activation that has just been entered.  pc is the place
\* of the activation: "loop" (in the for loop, n actions applied), "failed"
\* (in the catch, about to return), "notify" (in _listeners.forEach, pos
\* listeners called), "done" (about to return), "threw" (an exception left
\* update).  pre, last, final, subs, got and seen record what the
\* activation saw: the state on entry, the action last taken from the
\* argument list, the state and the listeners at the end of the batch, the
\* listeners called, and the state each of them could read when called.
NewFrame(s) ==
  [ pc |-> "loop", n |-> 0, dirty |-> FALSE,
    added |-> <<>>, removed |-> <<>>, updated |-> <<>>,
    pos |-> 0, pre |-> s, last |-> NoAction,
    final |-> s, subs |-> <<>>, got |-> <<>>, seen |-> <<>> ]

Top == stack[Len(stack)]

SetTop(f) == [stack EXCEPT ![Len(stack)] = f]

NoListeners == [ null |-> FALSE, items |-> <<>> ]

NullListeners == [ null |-> TRUE, items |-> <<>> ]

----------------------------------------------------------------------------
(* The objects held outside the store: the value the last getState         *)
(* returned and the group last passed in an add_tab_group that succeeded.  *)
(* val is the object as the caller sees it, alias the object of the store  *)
(* that it is (<<>> when it is none), touched whether the caller has       *)
(* written to it.                                                          *)

NoObject == [ has |-> FALSE, val |-> EmptyObject, alias |-> <<>>, touched |-> FALSE ]

Held(val, alias) == [ has |-> TRUE, val |-> val, alias |-> alias, touched |-> FALSE ]

\* this._state = {...} makes a new object: what was held of the old one is
\* no longer part of the store.
Detached(o) ==
  [ returned |-> [o.returned EXCEPT !.alias = <<>>],
    passed |-> [o.passed EXCEPT !.alias = <<>>] ]

----------------------------------------------------------------------------
(* init, getState, subscribe, unsubscribe *)

Init ==
  /\ state = ResetState
  /\ tabGroupIdCount = 0
  /\ listeners = NoListeners
  /\ stack = <<>>
  /\ uncaught = FALSE
  /\ outside = [ returned |-> NoObject, passed |-> NoObject ]

init ==
  /\ stack = <<>>
  /\ state' = ResetState
  /\ tabGroupIdCount' = 0
  /\ listeners' = NoListeners
  /\ uncaught' = FALSE
  /\ outside' = Detached(outside)
  /\ UNCHANGED stack

getState ==
  /\ stack = <<>>
  /\ outside' = [outside EXCEPT
                   !.returned = Held(_copy(state), _copyShares(<<"_state">>))]
  /\ UNCHANGED <<state, tabGroupIdCount, listeners, stack, uncaught>>

Has(l) == \E i \in DOMAIN listeners.items : listeners.items[i] = l

Delete(items, l) == SelectSeq(items, LAMBDA x : x # l)

\* _listeners.has on null is a TypeError that nothing catches.
subscribe(l) ==
  /\ stack = <<>>
  /\ IF listeners.null
       THEN uncaught' = TRUE /\ UNCHANGED listeners
       ELSE /\ uncaught' = FALSE
            /\ listeners' = IF ~ Has(l)
                              THEN [listeners EXCEPT !.items = Append(@, l)]
                              ELSE listeners
  /\ UNCHANGED <<state, tabGroupIdCount, stack, outside>>

unsubscribe(l) ==
  /\ stack = <<>>
  /\ IF listeners.null
       THEN uncaught' = TRUE /\ UNCHANGED listeners
       ELSE /\ uncaught' = FALSE
            /\ listeners' = IF Has(l)
                              THEN [listeners EXCEPT !.items = Delete(@, l)]
                              ELSE listeners
  /\ UNCHANGED <<state, tabGroupIdCount, stack, outside>>

----------------------------------------------------------------------------
(* update(...actions) *)

\* The caller enters update.
CallUpdate ==
  /\ stack = <<>>
  /\ stack' = <<NewFrame(state)>>
  /\ uncaught' = FALSE
  /\ UNCHANGED <<state, tabGroupIdCount, listeners, outside>>

\* One turn of the for loop: the next action of the argument list.
Turn(action) ==
  /\ stack # <<>>
  /\ Top.pc = "loop"
  /\ Top.n < MaxBatch
  /\ LET r == ApplyAction(state, tabGroupIdCount, action) IN
       /\ r.count <= MaxGroupId
       /\ state' = r.state
       /\ tabGroupIdCount' = r.count
       /\ stack' = SetTop(
            IF r.ok
              THEN [Top EXCEPT !.n = @ + 1,
                               !.dirty = @ \/ r.dirty,
                               !.added = @ \o r.added,
                               !.removed = @ \o r.removed,
                               !.updated = @ \o r.updated,
                               !.last = action]
              ELSE [Top EXCEPT !.pc = "failed", !.last = action])
  /\ UNCHANGED <<listeners, uncaught>>

\* The turn, its caller keeping no reference to the action's value.
DoAction(action) ==
  /\ Turn(action)
  /\ UNCHANGED outside

\* The turn, its caller keeping the group it passed to an add_tab_group
\* that succeeded: the group is the stored one if _copy handed it on.
DoActionKeeping(action) ==
  /\ Turn(action)
  /\ outside' =
       IF action.type = "add_tab_group"
          /\ ApplyAction(state, tabGroupIdCount, action).ok
         THEN [outside EXCEPT
                 !.passed = Held(action.value,
                                 IF _copyShares(<<"newTabGroup">>) = <<"newTabGroup">>
                                   THEN <<"tabGroups", TabGroupId(tabGroupIdCount)>>
                                   ELSE <<>>)]
         ELSE outside

\* The argument list is exhausted: the reset of a dirty batch, then forEach.
EndLoop ==
  /\ stack # <<>>
  /\ Top.pc = "loop"
  /\ IF Top.dirty
       THEN /\ state' = EndOfBatch(state)
            /\ stack' = SetTop([Top EXCEPT !.pc = "notify",
                                           !.final = EndOfBatch(state),
                                           !.subs = listeners.items])
       ELSE /\ stack' = SetTop([Top EXCEPT !.pc = "done"])
            /\ UNCHANGED state
  /\ outside' = IF Top.dirty /\ EndOfBatch(state) # state
                  THEN Detached(outside)
                  ELSE outside
  /\ UNCHANGED <<tabGroupIdCount, listeners, uncaught>>

\* forEach has a next listener while the Set it walks holds one it has not
\* visited; a Set that was cleared holds none.
HasNextListener ==
  /\ stack # <<>>
  /\ Top.pc = "notify"
  /\ ~ listeners.null
  /\ Top.pos < Len(listeners.items)

\* listener.onStateChange(this, { added, removed, updated }), the listener
\* returning without calling the store.
Notify ==
  /\ HasNextListener
  /\ stack' = SetTop([Top EXCEPT !.pos = @ + 1,
                                 !.got = Append(@, listeners.items[Top.pos + 1]),
                                 !.seen = Append(@, state)])
  /\ UNCHANGED <<state, tabGroupIdCount, listeners, uncaught, outside>>

\* The same, the listener calling update before it returns.
NotifyReenter ==
  /\ HasNextListener
  /\ Len(stack) < MaxDepth
  /\ stack' = Append(
       SetTop([Top EXCEPT !.pos = @ + 1,
                          !.got = Append(@, listeners.items[Top.pos + 1]),
                          !.seen = Append(@, state)]),
       NewFrame(state))
  /\ UNCHANGED <<state, tabGroupIdCount, listeners, uncaught, outside>>

\* forEach is over: the listeners are dropped when the status is destroyed.
EndNotify ==
  /\ stack # <<>>
  /\ Top.pc = "notify"
  /\ ~ HasNextListener
  /\ IF state.status = STATUS_DESTROYED
       THEN IF listeners.null
              THEN /\ stack' = SetTop([Top EXCEPT !.pc = "threw"])
                   /\ UNCHANGED listeners
              ELSE /\ listeners' = NullListeners
                   /\ stack' = SetTop([Top EXCEPT !.pc = "done"])
       ELSE /\ stack' = SetTop([Top EXCEPT !.pc = "done"])
            /\ UNCHANGED listeners
  /\ UNCHANGED <<state, tabGroupIdCount, uncaught, outside>>

\* update returns to its caller.
Return ==
  /\ stack # <<>>
  /\ Top.pc \in { "done", "failed" }
  /\ stack' = SubSeq(stack, 1, Len(stack) - 1)
  /\ UNCHANGED <<state, tabGroupIdCount, listeners, uncaught, outside>>

\* The TypeError of _listeners.clear() on null leaves update; no listener and
\* no forEach on the way out catches it.
Unwind ==
  /\ stack # <<>>
  /\ Top.pc = "threw"
  /\ stack' = <<>>
  /\ uncaught' = TRUE
  /\ UNCHANGED <<state, tabGroupIdCount, listeners, outside>>

\* The caller writes to the value getState returned.
MutateReturned ==
  /\ stack = <<>>
  /\ outside.returned.has /\ ~ outside.returned.touched
  /\ "windowWidth" \in DOMAIN outside.returned.val
  /\ LET w == outside.returned.val.windowWidth + 1 IN
       /\ outside' = [outside EXCEPT !.returned.val.windowWidth = w,
                                     !.returned.touched = TRUE]
       /\ state' = IF outside.returned.alias = <<"_state">>
                     THEN [state EXCEPT !.windowWidth = w]
                     ELSE state
  /\ UNCHANGED <<tabGroupIdCount, listeners, stack, uncaught>>

\* The caller writes to the group it passed to add_tab_group.
MutatePassed ==
  /\ stack = <<>>
  /\ outside.passed.has /\ ~ outside.passed.touched
  /\ LET o == outside.passed IN
       /\ outside' = [outside EXCEPT !.passed.val.layout = "row_split",
                                     !.passed.touched = TRUE]
       /\ state' = IF Len(o.alias) = 2 /\ o.alias[1] = "tabGroups"
                     THEN [state EXCEPT !.tabGroups[o.alias[2]].layout = "row_split"]
                     ELSE state
  /\ UNCHANGED <<tabGroupIdCount, listeners, stack, uncaught>>

Next ==
  \/ init
  \/ \E l \in Listeners : subscribe(l)
  \/ \E l \in Listeners : unsubscribe(l)
  \/ CallUpdate
  \/ \E action \in Actions : DoAction(action)
  \/ EndLoop
  \/ Notify
  \/ EndNotify
  \/ Return

Spec == Init /\ [][Next]_vars

\* The store with listeners that call update from onStateChange, over fewer
\* actions.
ReentrantActions ==
  { Action(t, Undefined) : t \in { "set_active", "set_inactive", "set_destroyed" } }
  \cup { Action("update_window_width", 800) }
  \cup { Action("add_tab_group",
                Group("#ff0000", "column_split", <<Tab("p1", 0, 5), Tab("p2", 1, 5)>>)) }

\* The store with a caller that keeps and writes to the objects it got
\* from and gave to the store; no listener is subscribed.
AliasActions ==
  { Action(t, Undefined) : t \in { "set_active", "set_inactive" } }
  \cup { Action("update_window_width", 800) }
  \cup { Action("add_tab_group",
                Group("#ff0000", "column_split", <<Tab("p1", 0, 5), Tab("p2", 1, 5)>>)) }

NextA ==
  \/ init
  \/ getState
  \/ CallUpdate
  \/ \E action \in AliasActions : DoActionKeeping(action)
  \/ EndLoop
  \/ EndNotify
  \/ Return
  \/ MutateReturned
  \/ MutatePassed

SpecA == Init /\ [][NextA]_vars

NextR ==
  \/ init
  \/ \E l \in Listeners : subscribe(l)
  \/ \E l \in Listeners : unsubscribe(l)
  \/ CallUpdate
  \/ \E action \in ReentrantActions : DoAction(action)
  \/ EndLoop
  \/ Notify
  \/ NotifyReenter
  \/ EndNotify
  \/ Return
  \/ Unwind

SpecR == Init /\ [][NextR]_vars

----------------------------------------------------------------------------
(* Vocabulary of the properties *)

Range(seq) == { seq[i] : i \in DOMAIN seq }

NoDuplicates(seq) == \A i, j \in DOMAIN seq : seq[i] = seq[j] => i = j

\* No activation of update is in progress.
Idle == stack = <<>>

\* The activation at the top is about to return to its caller.
Returning == stack # <<>> /\ Top.pc \in { "done", "failed" }

\* Every field of _state but status is gone, or holds its empty default.
Cleared(s) ==
  \/ DOMAIN s = { "status" }
  \/ s = [ResetState EXCEPT !.status = s.status]

\* The places (group id, position) of the tabs of the stored groups.
TabPlaces(s) ==
  { <<id, i>> : id \in DOMAIN s.tabGroups, i \in 1..2 } \cap
  UNION { { <<id, i>> : i \in DOMAIN s.tabGroups[id].tabs } : id \in DOMAIN s.tabGroups }

----------------------------------------------------------------------------
(* C1: between update calls, a store whose status is destroyed holds no   *)
(* other state field and no subscriber.                                    *)
C1_DestroyedIsCleared ==
  (Idle /\ state.status = STATUS_DESTROYED) =>
    (Cleared(state) /\ listeners.items = <<>>)

(* C2: when an update call that started Active returns with the status    *)
(* inactive, every other field holds its default.                          *)
C2_InactiveIsReset ==
  (Returning /\ Len(stack) = 1 /\ Top.pre.status = STATUS_ACTIVE
     /\ state.status = STATUS_INACTIVE) =>
    state = ResetState

(* C3: while the status is not destroyed, tabGroupIds has no duplicates    *)
(* and holds exactly the keys of tabGroups.                                *)
C3_IdsMatchGroups ==
  state.status # STATUS_DESTROYED =>
    /\ NoDuplicates(state.tabGroupIds)
    /\ Range(state.tabGroupIds) = DOMAIN state.tabGroups
    /\ Len(state.tabGroupIds) = Cardinality(DOMAIN state.tabGroups)

\* A batch failed after one add_tab_group went through and two groups are
\* stored.
C3_Witness ==
  /\ stack # <<>> /\ Top.pc = "failed" /\ Len(Top.added) = 1
  /\ state.status = STATUS_ACTIVE
  /\ Len(state.tabGroupIds) = 2

(* C4: no linkedPanel is held by two tabs of the stored groups, of one     *)
(* group or of two.                                                        *)
C4_PanelInOneGroup ==
  "tabGroups" \in DOMAIN state =>
    \A p, q \in TabPlaces(state) :
      state.tabGroups[p[1]].tabs[p[2]].linkedPanel
        = state.tabGroups[q[1]].tabs[q[2]].linkedPanel => p = q

\* Two add_tab_group of one batch named the same panels: the first is
\* stored, the second was turned down.
C4_Witness ==
  /\ stack # <<>> /\ Top.pc = "failed" /\ Top.n = 1 /\ Len(Top.added) = 1
  /\ Top.last.type = "add_tab_group"
  /\ Top.last.value \in ValidProposals
  /\ getTabGroupByLinkedPanel(Top.last.value.tabs[1].linkedPanel, state)

(* C5: an update call notifies no listener twice, and notifies only when   *)
(* the state it leaves differs from the state it found.                    *)
C5_NotifyOnlyOnChange ==
  (stack # <<>> /\ Len(stack) = 1 /\ Top.got # <<>>) =>
    (NoDuplicates(Top.got) /\ state # Top.pre)

(* C6: a batch that fails at its k-th action notifies nobody and leaves    *)
(* the state that update leaves for the actions 1..k-1 alone (the loop     *)
(* over them, then the reset of a dirty batch); unless destroyed, the      *)
(* store still takes an action.                                            *)
C6_FailedBatchIsItsPrefix ==
  (stack # <<>> /\ Len(stack) = 1 /\ Top.pc = "failed") =>
    /\ Top.got = <<>>
    /\ state = (IF Top.dirty THEN EndOfBatch(state) ELSE state)
    /\ state.status # STATUS_DESTROYED =>
         \E a \in Actions : ApplyAction(state, tabGroupIdCount, a).ok

\* The step of update that takes an action which throws.
FailingStep ==
  /\ stack # <<>> /\ Top.pc = "loop"
  /\ Len(stack') = Len(stack) /\ Top'.pc = "failed"

(* C7: an action that fails leaves _state and the id counter as they were  *)
(* before it.                                                              *)
C7_FailedActionChangesNothing ==
  [][FailingStep => (state' = state /\ tabGroupIdCount' = tabGroupIdCount)]_vars

\* An add_tab_group was turned down for its distribution sum while a group
\* is stored.
C7_Witness ==
  /\ stack # <<>> /\ Top.pc = "failed"
  /\ Top.last = Action("add_tab_group",
                       Group("#ff0000", "column_split",
                             <<Tab("p3", 0, 5), Tab("p4", 1, 4)>>))
  /\ state.status = STATUS_ACTIVE
  /\ Len(state.tabGroupIds) = 1

\* init() is called.
InitStep ==
  /\ Idle /\ stack' = <<>>
  /\ state' = ResetState /\ tabGroupIdCount' = 0 /\ listeners' = NoListeners

\* The call that set the status to destroyed has returned.
Settled == \A i \in DOMAIN stack : stack[i].pre.status = STATUS_DESTROYED

SetDestroyedStep ==
  /\ stack # <<>> /\ Top.pc = "loop"
  /\ Len(stack') = Len(stack) /\ Top'.pc \in { "loop", "failed" }
  /\ Top' # Top
  /\ Top'.last.type = "set_destroyed"

WidthCallReturns ==
  /\ stack # <<>> /\ Len(stack) = 1 /\ Top.pc = "done" /\ Top.n = 1
  /\ Top.last.type = "update_window_width" /\ Top.last.value > 0
  /\ Top.pre.status \in { STATUS_INACTIVE, STATUS_ACTIVE }

(* C10 as claimed: such a call leaves windowWidth = w, and changes and     *)
(* notifies nothing when w is the width already held.                      *)
C10_WidthIsSet ==
  WidthCallReturns =>
    /\ state.windowWidth = Top.last.value
    /\ Top.last.value = Top.pre.windowWidth => (state = Top.pre /\ Top.got = <<>>)

(* C10 as amended: called in the status active it leaves windowWidth = w;  *)
(* called in the status inactive with a new w it leaves the defaults of    *)
(* _resetState; with w the width already held it changes and notifies      *)
(* nothing.                                                                *)
C10_WidthIsSetWhenActive ==
  WidthCallReturns =>
    /\ Top.pre.status = STATUS_ACTIVE => state.windowWidth = Top.last.value
    /\ (Top.pre.status = STATUS_INACTIVE /\ Top.last.value # Top.pre.windowWidth)
         => state = ResetState
    /\ Top.last.value = Top.pre.windowWidth => (state = Top.pre /\ Top.got = <<>>)

\* An active store with a subscriber took a new width.
C10_Witness ==
  /\ WidthCallReturns
  /\ Top.pre.status = STATUS_ACTIVE /\ Top.pre.windowWidth = 800
  /\ Top.last.value = 1024
  /\ Top.got # <<>>

\* The step of update that takes an add_tab_group action which succeeds.
AddStep ==
  /\ stack # <<>> /\ Top.pc = "loop"
  /\ Len(stack') = Len(stack) /\ Top'.pc = "loop"
  /\ Len(Top'.added) = Len(Top.added) + 1

\* The integers of the ids that are stored or reported by a running call.
IdsInUse ==
  { id[2] : id \in (IF "tabGroupIds" \in DOMAIN state
                      THEN Range(state.tabGroupIds) \cup DOMAIN state.tabGroups
                      ELSE {})
                   \cup UNION { Range(stack[i].added) : i \in DOMAIN stack } }

(* C11: between one init and the next the id counter never falls, every    *)
(* id in use lies below it, and a successful add_tab_group assigns the     *)
(* prefix plus the counter and advances the counter: each new integer is   *)
(* greater than every integer assigned before.                             *)
C11_IdsIncrease ==
  /\ [](\A k \in IdsInUse : k < tabGroupIdCount)
  /\ [][/\ ~ InitStep => tabGroupIdCount' >= tabGroupIdCount
        /\ AddStep =>
             /\ Top'.added[Len(Top'.added)] = TabGroupId(tabGroupIdCount)
             /\ \A k \in IdsInUse : tabGroupIdCount > k
             /\ tabGroupIdCount' = tabGroupIdCount + 1]_vars

\* After a failed add_tab_group and a reset to inactive that wiped the first
\* group, a second group got the next integer.
C11_Witness ==
  /\ stack # <<>> /\ Top.pc = "loop"
  /\ Top.added = <<TabGroupId(1)>>
  /\ state.tabGroupIds = <<TabGroupId(1)>>
  /\ tabGroupIdCount = 2

\* forEach of the outermost call has visited every listener.
ForEachIsOver ==
  /\ stack # <<>> /\ Len(stack) = 1
  /\ Top.pc = "notify" /\ ~ HasNextListener

(* C12: when forEach of a dirty batch whose actions all succeeded is over, *)
(* each listener subscribed at the end of the batch has been called        *)
(* exactly once, and the state each could read when called is the state    *)
(* the batch left, the reset of an inactive status and the clearing of a   *)
(* destroyed one applied.                                                  *)
C12_NotifiedOnceWithFinalState ==
  ForEachIsOver =>
    /\ Top.got = Top.subs
    /\ NoDuplicates(Top.got)
    /\ Top.final.status = STATUS_INACTIVE => Top.final = ResetState
    /\ Top.final.status = STATUS_DESTROYED => DOMAIN Top.final = { "status" }
    /\ \A i \in DOMAIN Top.seen : Top.seen[i] = Top.final

(* C13: no call of update, a call made by a listener from onStateChange    *)
(* included, is left by an exception while listeners are being notified.   *)
C13_OuterUpdateCompletes ==
  \A i \in DOMAIN stack : stack[i].pc # "threw"

\* The groups of _state.tabGroups, none once the state is cleared.
StoredGroups ==
  IF "tabGroups" \in DOMAIN state
    THEN { state.tabGroups[id] : id \in DOMAIN state.tabGroups }
    ELSE {}

(* C15: every stored group has two tabs, the tab at position i has col i,  *)
(* each distribution lies strictly between 0 and 1, the two distributions  *)
(* sum to 1, and the layout is one of VALID_LAYOUTS.                       *)
C15_StoredGroupsAreWellFormed ==
  \A g \in StoredGroups :
    /\ Len(g.tabs) = 2
    /\ \A i \in DOMAIN g.tabs :
         /\ g.tabs[i].col = i - 1
         /\ 0 < g.tabs[i].distribution
         /\ g.tabs[i].distribution < DistOne
    /\ DistributionSum(g.tabs, Len(g.tabs)) = DistOne
    /\ g.layout \in VALID_LAYOUTS

\* Two groups are stored, one of them split 0.3 / 0.7.
C15_Witness ==
  /\ Cardinality(StoredGroups) = 2
  /\ \E g \in StoredGroups : g.tabs[1].distribution = 3 /\ g.tabs[2].distribution = 7

(* C16: every stored group has a color, and it is a non-empty string.      *)
C16_StoredColorIsNonEmpty ==
  \A g \in StoredGroups :
    /\ "color" \in DOMAIN g
    /\ g.color # ""
    /\ g.color # Undefined

\* A step of subscribe or unsubscribe.
SubscriberStep == Idle /\ stack' = <<>> /\ ~ InitStep

(* C17: subscribe and unsubscribe raise no error in any state, never hold  *)
(* a listener twice, and change the listeners only by adding an absent     *)
(* listener or deleting a present one.                                     *)
C17_SubscribeIsIdempotent ==
  [][SubscriberStep =>
       /\ ~ uncaught'
       /\ NoDuplicates(listeners'.items)
       /\ listeners' # listeners =>
            \E l \in Listeners :
              \/ ~ Has(l) /\ listeners'.items = Append(listeners.items, l)
              \/ Has(l) /\ listeners'.items = Delete(listeners.items, l)]_vars

(* C18: a call of update with the single action remove_tab_group or        *)
(* update_tab_distibutions, made while the status is not destroyed,        *)
(* returns with _state as it was on entry.                                 *)
C18_StubsLeaveStateAlone ==
  ( /\ Len(stack) = 1 /\ Top.pc = "done" /\ Top.n = 1
    /\ Top.last.type \in { "remove_tab_group", "update_tab_distibutions" }
    /\ Top.pre.status # STATUS_DESTROYED )
  => state = Top.pre

(* C19: the added list of a notification holds the ids the batch created,  *)
(* in increasing order, and each of them is a key of tabGroups and a       *)
(* member of tabGroupIds in the state the listener reads when called.      *)
C19_AddedIdsAreStored ==
  \A f \in Range(stack) :
    /\ \A a, b \in DOMAIN f.added : a < b => f.added[a][2] < f.added[b][2]
    /\ \A i \in DOMAIN f.seen : \A id \in Range(f.added) :
         /\ "tabGroups" \in DOMAIN f.seen[i]
         /\ id \in DOMAIN f.seen[i].tabGroups
         /\ id \in Range(f.seen[i].tabGroupIds)

(* C20: a listener is called for the batch of a nested update only after   *)
(* it has been called for the batch of the update that is notifying.       *)
C20_NotifiedInBatchOrder ==
  \A i, j \in DOMAIN stack :
    i < j => Range(stack[j].got) \subseteq Range(stack[i].got)

\* The caller writes to an object it holds.
MutateStep ==
  /\ Idle /\ stack' = <<>>
  /\ \/ ~ outside.returned.touched /\ outside'.returned.touched
     \/ ~ outside.passed.touched /\ outside'.passed.touched

====
